---------------------------- MODULE Spec2Model ----------------------------
(***************************************************************************)
(* State-machine model of the socket.io part of src/server.js: the         *)
(* authenticate / join_room / chat_message / behavior_params / disconnect  *)
(* handlers, the per-room behaviour buffers and forwardToModelAndBroadcast.*)
(*                                                                         *)
(* Node runs every handler to its first await without interleaving, so a   *)
(* handler is one action up to its first await, and every continuation     *)
(* after an await (store reply, scorer reply) is an action of its own.     *)
(***************************************************************************)
EXTENDS Integers, Sequences, FiniteSets, TLC

(***************************************************************************)
(* Program constants.                                                      *)
(***************************************************************************)
\* params.slice(-10), server.js line 252
BatchTail == 10
\* window cap, server.js lines 253-254
WindowCap == 30

(***************************************************************************)
(* Bounds of the model.                                                    *)
(***************************************************************************)
\* behavior_params events handled in one run
MaxBatches == 3
\* join_room events handled in one run, those before the initial state included
MaxJoins == 3
\* chat_message events handled in one run
MaxChats == 2
\* client events handled in one run from the server's start
MaxEvents == 4
\* behavior_params events of one run of batches in a row
MaxRow == 5
\* samples in a batch of the window runs
RowLen == 15
\* code units in an identity of the room id runs
MaxIdLen == 2
\* behavior_params events in the aggregation runs
MaxAgg == 4

(***************************************************************************)
(* Strings that the code compares or sorts are sequences of UTF-16 code    *)
(* units; ids, room ids and target ids are such strings.                   *)
(***************************************************************************)
Underscore == <<95, 95>>           \* the "__" of makeRoomId
IdA == <<97>>                      \* "a"
IdB == <<98>>                      \* "b"
IdC == <<99>>                      \* "c"

\* a < b in the order Array.prototype.sort() uses for strings
RECURSIVE StrLess(_, _)
StrLess(a, b) ==
  IF b = <<>> THEN FALSE
  ELSE IF a = <<>> THEN TRUE
  ELSE IF Head(a) # Head(b) THEN Head(a) < Head(b)
  ELSE StrLess(Tail(a), Tail(b))

\* a slip: the two ids joined as given, the sort left out
makeRoomIdUnsorted(userId1, userId2) == userId1 \o Underscore \o userId2

\* function makeRoomId(userId1, userId2)
makeRoomId(userId1, userId2) ==
  LET a == IF StrLess(userId2, userId1) THEN userId2 ELSE userId1
      b == IF StrLess(userId2, userId1) THEN userId1 ELSE userId2
  IN  a \o Underscore \o b

(***************************************************************************)
(* Connections (sockets) and the user directory.                           *)
(***************************************************************************)
Conns == {"s1", "s2", "s3"}

\* what User.findById returns for the ids the directory holds
Directory == { [id |-> IdA, name |-> "Ann", email |-> "ann@x"],
               [id |-> IdB, name |-> "Bob", email |-> "bob@x"] }

\* socket.user before authentication (undefined)
NoUser == [id |-> <<>>, name |-> "", email |-> ""]
\* socket.roomId before join_room (undefined)
NoRoom == <<>>

UserOf(uid) == CHOOSE u \in Directory : u.id = uid

(***************************************************************************)
(* Behaviour samples.  A sample is a JSON value: an object with some of    *)
(* the numeric fields, or null.  The field "sid" is the identity of the    *)
(* JavaScript object: two samples with equal fields are still two samples. *)
(***************************************************************************)
Null == [null |-> TRUE]
IsNull(p) == "null" \in DOMAIN p

\* p.f || 0 : an absent field and a zero field both give 0
Field(p, f) == IF f \in DOMAIN p THEN p[f] ELSE 0

\* a || b : the first operand unless it is falsy (0 here)
OrElse(a, b) == IF a # 0 THEN a ELSE b

Tag(p, n) == [f \in DOMAIN p \cup {"sid"} |-> IF f = "sid" THEN n ELSE p[f]]

\* the elements of batch, tagged n+1, n+2, ...
TagAll(batch, n) == [i \in 1..Len(batch) |-> Tag(batch[i], n + i)]

\* a slip: slice(0, k) in place of slice(-k)
SliceFirst(s, k) ==
  IF Len(s) <= k THEN s ELSE SubSeq(s, 1, k)

\* Array.prototype.slice(-k)
SliceLast(s, k) ==
  IF Len(s) <= k THEN s ELSE SubSeq(s, Len(s) - k + 1, Len(s))

\* a slip: arr.splice(cap) in place of arr.splice(0, arr.length - cap), which
\* drops the newest elements
CapWindowFront(w) ==
  IF Len(w) > WindowCap THEN SubSeq(w, 1, WindowCap) ELSE w

\* arr.splice(0, arr.length - cap) when arr.length > cap
CapWindow(w) ==
  IF Len(w) > WindowCap THEN SubSeq(w, Len(w) - WindowCap + 1, Len(w)) ELSE w

\* a slip: Math.floor(sum / n) in place of Math.round
MathFloor(sum, n) == sum \div n

\* Math.round(sum / n) for integers sum and n > 0: floor(sum/n + 1/2)
MathRound(sum, n) == (2 * sum + n) \div (2 * n)

\* what the reducer adds to accumulator field k for the sample p
Term(k, p) ==
  CASE k = "avg_pause_duration_ms" -> Field(p, "pause_duration_ms")
    [] k = "avg_scroll_depth_pct"  -> Field(p, "scroll_depth_pct")
    [] k = "avg_typing_speed_min"  ->
         OrElse(Field(p, "typing_speed_min"),
                OrElse(Field(p, "typing_speed"),
                       Field(p, "typing_speed_chars_per_min")))
    [] k = "avg_response_time"     ->
         OrElse(Field(p, "response_time"), Field(p, "response_time_ms"))

RECURSIVE SumOver(_, _, _)
\* allParams.reduce(...) for the accumulator field k, from acc
SumOver(k, s, acc) ==
  IF s = <<>> THEN acc ELSE SumOver(k, Tail(s), acc + Term(k, Head(s)))

\* the features object of forwardToModelAndBroadcast, for a non-empty
\* allParams without null
Features(allParams) ==
  LET n == Len(allParams)
  IN  [ avg_pause_duration_ms |->
          MathRound(SumOver("avg_pause_duration_ms", allParams, 0), n),
        avg_scroll_depth_pct |->
          MathRound(SumOver("avg_scroll_depth_pct", allParams, 0), n),
        avg_typing_speed_min |->
          MathRound(SumOver("avg_typing_speed_min", allParams, 0), n),
        avg_response_time |->
          MathRound(SumOver("avg_response_time", allParams, 0), n),
        sample_count |-> n ]

(***************************************************************************)
(* Finite maps (JavaScript objects used as dictionaries).                  *)
(***************************************************************************)
Put(f, k, v) == [x \in DOMAIN f \cup {k} |-> IF x = k THEN v ELSE f[x]]
Delete(f, k) == [x \in DOMAIN f \ {k} |-> f[x]]
EmptyMap == [x \in {} |-> <<>>]

RECURSIVE ConcatAll(_, _)
\* for (const sid of Object.keys(buf)) allParams.push(...buf[sid]);
\* only sums and the length of allParams are used, so the key order is not
\* observable and the keys are taken in an arbitrary fixed order
ConcatAll(buf, keys) ==
  IF keys = {} THEN <<>>
  ELSE LET k == CHOOSE x \in keys : TRUE
       IN  buf[k] \o ConcatAll(buf, keys \ {k})

AllParams(buf) == ConcatAll(buf, DOMAIN buf)

HasNull(s) == \E i \in 1..Len(s) : IsNull(s[i])

\* the samples (object identities) an array holds, a room's buffer holds,
\* all buffers hold
Sids(s) == { s[i].sid : i \in 1..Len(s) }
RoomSids(buf) == UNION { Sids(buf[s]) : s \in DOMAIN buf }
BufSids(bufs) == UNION { RoomSids(bufs[r]) : r \in DOMAIN bufs }

VARIABLES
  connected,        \* connected[s]: the socket s is open
  user,             \* socket.user
  roomId,           \* socket.roomId
  joined,           \* the socket.io rooms of the socket (socket.join)
  behaviorBuffers,  \* behaviorBuffers[roomId][socket.id]: array of samples
  admitted,         \* history: the samples ever pushed into a window
  removed,          \* history: the samples evicted or deleted on disconnect
  inflight,         \* the cycles whose axios.post awaits its reply
  cycles,           \* history: every cycle that posted features, in order
  emitted,          \* history: the events emitted, in order, with receivers
  auths,            \* authenticate handlers awaiting User.findById
  chats,            \* chat_message handlers awaiting the message store
  messages,         \* the message store: the messages saved, in order
  nextSid,          \* samples received so far (object identities)
  nBatches,         \* behavior_params events handled so far
  nJoins,           \* join_room events handled so far
  nChats,           \* chat_message events handled so far
  nAuths            \* authenticate events handled so far

vars == << connected, user, roomId, joined, behaviorBuffers, admitted,
           removed, inflight, cycles, emitted, auths, chats, messages,
           nextSid, nBatches, nJoins, nChats, nAuths >>

sockVars == << connected, user, roomId, joined >>
bufVars == << behaviorBuffers, admitted, removed, inflight, cycles, nextSid >>
chatVars == << chats, messages >>
counters == << nBatches, nJoins, nChats, nAuths >>

(***************************************************************************)
(* Emission.  io.to(room).emit reaches the open sockets that joined room;  *)
(* socket.emit reaches the socket if it is still open.                     *)
(***************************************************************************)
Members(r) == { s \in Conns : connected[s] /\ r \in joined[s] }
ToSelf(s) == IF connected[s] THEN {s} ELSE {}

ErrorEvent(s, msg) == [ev |-> "error", to |-> ToSelf(s), message |-> msg]

(***************************************************************************)
(* The behaviour buffers.                                                  *)
(***************************************************************************)
\* lines 250-252: create the room's buffer and the socket's array if absent,
\* push the batch's last 10 elements
Admit(bufs, r, s, batch) ==
  LET b1 == IF r \in DOMAIN bufs THEN bufs ELSE Put(bufs, r, EmptyMap)
      w0 == IF s \in DOMAIN b1[r] THEN b1[r][s] ELSE <<>>
  IN  Put(b1, r, Put(b1[r], s, w0 \o SliceLast(batch, BatchTail)))

\* lines 253-255: evict from the front down to 30
Evict(bufs, r, s) == Put(bufs, r, Put(bufs[r], s, CapWindow(bufs[r][s])))

\* a slip: the clear of line 173 left out
ClearRoomKeep(bufs, r) == bufs

\* line 173: behaviorBuffers[roomId] = {}
ClearRoom(bufs, r) == Put(bufs, r, EmptyMap)

\* lines 263-265: delete behaviorBuffers[socket.roomId][socket.id]
DropSocket(bufs, s) ==
  IF roomId[s] # NoRoom /\ roomId[s] \in DOMAIN bufs
  THEN Put(bufs, roomId[s], Delete(bufs[roomId[s]], s))
  ELSE bufs

\* how a call of forwardToModelAndBroadcast(r) ends its synchronous part:
\* "nobuf" (line 135), "noparams" (line 144), "throw" (the reducer reads a
\* field of null, lines 149-152) or "post" (line 176 is reached)
ForwardOutcome(bufs, r) ==
  IF r \notin DOMAIN bufs THEN "nobuf"
  ELSE IF Len(AllParams(bufs[r])) = 0 THEN "noparams"
  ELSE IF HasNull(AllParams(bufs[r])) THEN "throw"
  ELSE "post"

\* a slip: the check of line 142 left out, so that an empty allParams is
\* posted too (its averages, 0/0, stand as 0 here)
ForwardNoZeroCheck(bufs, r) ==
  IF ForwardOutcome(bufs, r) \in {"post", "noparams"}
  THEN /\ cycles' = Append(cycles,
            [ roomId   |-> r,
              features |-> IF ForwardOutcome(bufs, r) = "post"
                           THEN Features(AllParams(bufs[r]))
                           ELSE [ avg_pause_duration_ms |-> 0,
                                  avg_scroll_depth_pct |-> 0,
                                  avg_typing_speed_min |-> 0,
                                  avg_response_time |-> 0,
                                  sample_count |-> 0 ],
              buf      |-> bufs[r] ])
       /\ inflight' = inflight \cup {Len(cycles) + 1}
       /\ behaviorBuffers' = ClearRoom(bufs, r)
  ELSE /\ behaviorBuffers' = bufs
       /\ UNCHANGED << cycles, inflight >>

\* a slip: a cycle is not started while a request for the room is pending
\* (the handler waits for the reply in flight)
ForwardSerial(bufs, r) ==
  IF /\ ForwardOutcome(bufs, r) = "post"
     /\ \A q \in inflight : cycles[q].roomId # r
  THEN /\ cycles' = Append(cycles, [ roomId   |-> r,
                                     features |-> Features(AllParams(bufs[r])),
                                     buf      |-> bufs[r] ])
       /\ inflight' = inflight \cup {Len(cycles) + 1}
       /\ behaviorBuffers' = ClearRoom(bufs, r)
  ELSE /\ behaviorBuffers' = bufs
       /\ UNCHANGED << cycles, inflight >>

\* the synchronous part of forwardToModelAndBroadcast(r), lines 131-176,
\* run on the buffers bufs; a cycle that reaches line 176 is recorded with
\* the room's buffer as lines 137-141 read it
Forward(bufs, r) ==
  IF ForwardOutcome(bufs, r) = "post"
  THEN /\ cycles' = Append(cycles, [ roomId   |-> r,
                                     features |-> Features(AllParams(bufs[r])),
                                     buf      |-> bufs[r] ])
       /\ inflight' = inflight \cup {Len(cycles) + 1}
       /\ behaviorBuffers' = ClearRoom(bufs, r)
  ELSE /\ behaviorBuffers' = bufs
       /\ UNCHANGED << cycles, inflight >>

\* a slip: a params that is not an array is answered with an error event
BehaviorParamsStrict(s, params) ==
  /\ connected[s]
  /\ nBatches' = nBatches + 1
  /\ UNCHANGED << sockVars, auths, chatVars, nJoins, nChats, nAuths >>
  /\ IF user[s] = NoUser \/ roomId[s] = NoRoom
     THEN /\ emitted' = Append(emitted,
                          ErrorEvent(s, "Unauthorized or no room joined"))
          /\ UNCHANGED bufVars
     ELSE IF ~params.isArray
     THEN /\ emitted' = Append(emitted, ErrorEvent(s, "Invalid params"))
          /\ UNCHANGED bufVars
     ELSE LET batch == TagAll(params.items, nextSid)
              pushed == Admit(behaviorBuffers, roomId[s], s, batch)
              capped == Evict(pushed, roomId[s], s)
          IN  /\ nextSid' = nextSid + Len(batch)
              /\ admitted' = admitted \cup (BufSids(pushed) \ BufSids(behaviorBuffers))
              /\ removed' = removed \cup (BufSids(pushed) \ BufSids(capped))
              /\ Forward(capped, roomId[s])
              /\ UNCHANGED emitted

\* socket.on('behavior_params', ({ params }) => ...), lines 244-260.
\* params is [isArray |-> BOOLEAN, items |-> the elements when it is one]
BehaviorParams(s, params) ==
  /\ connected[s]
  /\ nBatches' = nBatches + 1
  /\ UNCHANGED << sockVars, auths, chatVars, nJoins, nChats, nAuths >>
  /\ IF user[s] = NoUser \/ roomId[s] = NoRoom
     THEN /\ emitted' = Append(emitted,
                          ErrorEvent(s, "Unauthorized or no room joined"))
          /\ UNCHANGED bufVars
     ELSE IF ~params.isArray
     THEN UNCHANGED << emitted, bufVars >>
     ELSE LET batch == TagAll(params.items, nextSid)
              pushed == Admit(behaviorBuffers, roomId[s], s, batch)
              capped == Evict(pushed, roomId[s], s)
          IN  /\ nextSid' = nextSid + Len(batch)
              /\ admitted' = admitted \cup (BufSids(pushed) \ BufSids(behaviorBuffers))
              /\ removed' = removed \cup (BufSids(pushed) \ BufSids(capped))
              /\ Forward(capped, roomId[s])
              /\ UNCHANGED emitted

\* a slip: the emit of line 179 is followed by a failure inside the try
\* block, so that the catch block emits ml_error for the same cycle
ScorerReplyBoth(q, mlData) ==
  /\ q \in inflight
  /\ inflight' = inflight \ {q}
  /\ emitted' = emitted \o << [ ev |-> "ml_analysis",
                                to |-> Members(cycles[q].roomId),
                                roomId |-> cycles[q].roomId,
                                features |-> cycles[q].features,
                                mlData |-> mlData,
                                cycle |-> q ],
                              [ ev |-> "ml_error",
                                to |-> Members(cycles[q].roomId),
                                roomId |-> cycles[q].roomId,
                                message |-> "ML model error",
                                cycle |-> q ] >>
  /\ UNCHANGED << sockVars, behaviorBuffers, admitted, removed, cycles,
                  nextSid, auths, chatVars, counters >>

\* line 179, after the await of line 176 returned the scorer's reply mlData
ScorerReply(q, mlData) ==
  /\ q \in inflight
  /\ inflight' = inflight \ {q}
  /\ emitted' = Append(emitted, [ ev |-> "ml_analysis",
                                  to |-> Members(cycles[q].roomId),
                                  roomId |-> cycles[q].roomId,
                                  features |-> cycles[q].features,
                                  mlData |-> mlData,
                                  cycle |-> q ])
  /\ UNCHANGED << sockVars, behaviorBuffers, admitted, removed, cycles,
                  nextSid, auths, chatVars, counters >>

\* lines 180-183: axios.post rejected (timeout, transport error, status)
ScorerFail(q) ==
  /\ q \in inflight
  /\ inflight' = inflight \ {q}
  /\ emitted' = Append(emitted, [ ev |-> "ml_error",
                                  to |-> Members(cycles[q].roomId),
                                  roomId |-> cycles[q].roomId,
                                  message |-> "ML model error",
                                  cycle |-> q ])
  /\ UNCHANGED << sockVars, behaviorBuffers, admitted, removed, cycles,
                  nextSid, auths, chatVars, counters >>

\* what socket.disconnect() and a client's disconnect do to the socket: the
\* socket leaves its rooms and the 'disconnect' handler (lines 262-267) runs;
\* nothing happens to a socket that is already closed
CloseSocket(s) ==
  IF connected[s]
  THEN /\ connected' = [connected EXCEPT ![s] = FALSE]
       /\ joined' = [joined EXCEPT ![s] = {}]
       /\ behaviorBuffers' = DropSocket(behaviorBuffers, s)
       /\ removed' = removed \cup (BufSids(behaviorBuffers)
                                     \ BufSids(DropSocket(behaviorBuffers, s)))
  ELSE UNCHANGED << connected, joined, behaviorBuffers, removed >>

\* a slip: the disconnect also abandons the pending requests of the socket's
\* room
DisconnectCancel(s) ==
  /\ connected[s]
  /\ CloseSocket(s)
  /\ inflight' = { q \in inflight : cycles[q].roomId # roomId[s] }
  /\ UNCHANGED << user, roomId, admitted, cycles, emitted, nextSid,
                  auths, chatVars, counters >>

\* socket.on('disconnect', ...), lines 262-267; socket.io has already taken
\* the socket out of its rooms when the handler runs
Disconnect(s) ==
  /\ connected[s]
  /\ CloseSocket(s)
  /\ UNCHANGED << user, roomId, admitted, inflight, cycles, emitted, nextSid,
                  auths, chatVars, counters >>

\* socket.on('join_room', ({ targetId }) => ...), lines 210-219
JoinRoom(s, targetId) ==
  /\ connected[s]
  /\ nJoins' = nJoins + 1
  /\ UNCHANGED << connected, user, admitted, removed, inflight, cycles,
                  nextSid, auths, chatVars, nBatches, nChats, nAuths >>
  /\ IF user[s] = NoUser
     THEN /\ emitted' = Append(emitted, ErrorEvent(s, "Unauthorized"))
          /\ UNCHANGED << roomId, joined, behaviorBuffers >>
     ELSE LET r == makeRoomId(user[s].id, targetId)
          IN  /\ joined' = [joined EXCEPT ![s] = @ \cup {r}]
              /\ roomId' = [roomId EXCEPT ![s] = r]
              /\ emitted' = Append(emitted,
                   [ ev |-> "system_message",
                     to |-> Members(r) \cup {s},
                     roomId |-> r,
                     text |-> << user[s].name, "joined chat" >>,
                     by |-> s ])
              /\ behaviorBuffers' =
                   IF r \in DOMAIN behaviorBuffers THEN behaviorBuffers
                   ELSE Put(behaviorBuffers, r, EmptyMap)

(***************************************************************************)
(* chat_message, lines 221-242: two awaits (Message.create, then           *)
(* Message.findById(...).populate), each of which the store may fail.      *)
(***************************************************************************)
\* a slip: the test of socket.roomId at line 222 left out
ChatMessageNoRoomCheck(s, text) ==
  /\ connected[s]
  /\ nChats' = nChats + 1
  /\ UNCHANGED << sockVars, bufVars, auths, messages, nBatches, nJoins, nAuths >>
  /\ IF user[s] = NoUser
     THEN /\ emitted' = Append(emitted,
                          ErrorEvent(s, "Unauthorized or no room joined"))
          /\ UNCHANGED chats
     ELSE /\ chats' = chats \cup { [ id |-> nChats + 1, sock |-> s,
                                     from |-> user[s].id, text |-> text,
                                     roomId |-> roomId[s], stage |-> "create" ] }
          /\ UNCHANGED emitted

ChatMessage(s, text) ==
  /\ connected[s]
  /\ nChats' = nChats + 1
  /\ UNCHANGED << sockVars, bufVars, auths, messages, nBatches, nJoins, nAuths >>
  /\ IF user[s] = NoUser \/ roomId[s] = NoRoom
     THEN /\ emitted' = Append(emitted,
                          ErrorEvent(s, "Unauthorized or no room joined"))
          /\ UNCHANGED chats
     ELSE /\ chats' = chats \cup { [ id |-> nChats + 1, sock |-> s,
                                     from |-> user[s].id, text |-> text,
                                     roomId |-> roomId[s], stage |-> "create" ] }
          /\ UNCHANGED emitted

\* Message.create resolved (line 226): the message is in the store
ChatSaved(t) ==
  /\ t \in chats /\ t.stage = "create"
  /\ messages' = Append(messages, [ id |-> t.id, from |-> t.from,
                                    text |-> t.text, roomId |-> t.roomId ])
  /\ chats' = (chats \ {t}) \cup { [t EXCEPT !.stage = "find"] }
  /\ UNCHANGED << sockVars, bufVars, auths, emitted, counters >>

\* the message as the store holds it
Stored(id) == CHOOSE m \in { messages[i] : i \in 1..Len(messages) } : m.id = id

\* a slip: socket.emit in place of io.to(socket.roomId).emit at line 228
ChatLoadedToSender(t) ==
  /\ t \in chats /\ t.stage = "find"
  /\ chats' = chats \ {t}
  /\ emitted' = Append(emitted, [ ev |-> "chat_message",
                                  to |-> ToSelf(t.sock),
                                  roomId |-> roomId[t.sock],
                                  id |-> Stored(t.id).id,
                                  text |-> Stored(t.id).text,
                                  from |-> UserOf(Stored(t.id).from),
                                  by |-> t.sock ])
  /\ UNCHANGED << sockVars, bufVars, auths, messages, counters >>

\* Message.findById(...).populate resolved (line 227): lines 228-237
ChatLoaded(t) ==
  /\ t \in chats /\ t.stage = "find"
  /\ chats' = chats \ {t}
  /\ emitted' = Append(emitted, [ ev |-> "chat_message",
                                  to |-> Members(roomId[t.sock]),
                                  roomId |-> roomId[t.sock],
                                  id |-> Stored(t.id).id,
                                  text |-> Stored(t.id).text,
                                  from |-> UserOf(Stored(t.id).from),
                                  by |-> t.sock ])
  /\ UNCHANGED << sockVars, bufVars, auths, messages, counters >>

\* a slip: io.to(socket.roomId).emit in place of socket.emit at line 240
ChatFailedToRoom(t) ==
  /\ t \in chats
  /\ chats' = chats \ {t}
  /\ emitted' = Append(emitted, [ ev |-> "error",
                                  to |-> Members(roomId[t.sock]),
                                  message |-> "Failed to save message" ])
  /\ UNCHANGED << sockVars, bufVars, auths, messages, counters >>

\* either await rejected: lines 238-241
ChatFailed(t) ==
  /\ t \in chats
  /\ chats' = chats \ {t}
  /\ emitted' = Append(emitted, ErrorEvent(t.sock, "Failed to save message"))
  /\ UNCHANGED << sockVars, bufVars, auths, messages, counters >>

(***************************************************************************)
(* authenticate, lines 189-208.  data is [hasToken, valid, id]: whether    *)
(* data.token is there, whether jwt.verify accepts it, and decoded.id.     *)
(***************************************************************************)
UnauthorizedEvent(s) == [ev |-> "unauthorized", to |-> ToSelf(s)]

Authenticate(s, data) ==
  /\ connected[s]
  /\ nAuths' = nAuths + 1
  /\ UNCHANGED << user, roomId, admitted, inflight, cycles, nextSid, chatVars,
                  nBatches, nJoins, nChats >>
  /\ IF ~data.hasToken \/ ~data.valid
     THEN /\ emitted' = Append(emitted, UnauthorizedEvent(s))
          /\ CloseSocket(s)
          /\ UNCHANGED auths
     ELSE /\ auths' = auths \cup { [sock |-> s, id |-> data.id, n |-> nAuths + 1] }
          /\ UNCHANGED << connected, joined, behaviorBuffers, removed, emitted >>

\* User.findById resolved with a user: lines 201-203
AuthFound(a) ==
  /\ a \in auths
  /\ \E u \in Directory : u.id = a.id
  /\ auths' = auths \ {a}
  /\ user' = [user EXCEPT ![a.sock] = UserOf(a.id)]
  /\ emitted' = Append(emitted, [ ev |-> "authenticated", to |-> ToSelf(a.sock),
                                  user |-> UserOf(a.id) ])
  /\ UNCHANGED << connected, roomId, joined, bufVars, chatVars, counters >>

\* a slip: unauthorized is emitted and the socket is left open
AuthRejectedStay(a) ==
  /\ a \in auths
  /\ auths' = auths \ {a}
  /\ emitted' = Append(emitted, UnauthorizedEvent(a.sock))
  /\ UNCHANGED << sockVars, bufVars, chatVars, counters >>

\* User.findById resolved with null (lines 197-200) or rejected (204-207)
AuthRejected(a) ==
  /\ a \in auths
  /\ auths' = auths \ {a}
  /\ emitted' = Append(emitted, UnauthorizedEvent(a.sock))
  /\ CloseSocket(a.sock)
  /\ UNCHANGED << user, roomId, admitted, inflight, cycles, nextSid, chatVars,
                  counters >>

(***************************************************************************)
(* Inputs.                                                                 *)
(***************************************************************************)
Targets == { IdA, IdB, IdC }
Texts == { "hi", "yo" }
OneText == { "hi" }
Replies == { "engaged", "bored" }
OneReply == { "engaged" }
Tokens == { [hasToken |-> FALSE, valid |-> FALSE, id |-> <<>>],
            [hasToken |-> TRUE,  valid |-> FALSE, id |-> IdA],
            [hasToken |-> TRUE,  valid |-> TRUE,  id |-> IdA],
            [hasToken |-> TRUE,  valid |-> TRUE,  id |-> IdB],
            [hasToken |-> TRUE,  valid |-> TRUE,  id |-> IdC] }

Array(items) == [isArray |-> TRUE, items |-> items]
NotArray == [isArray |-> FALSE, items |-> <<>>]

P100 == [pause_duration_ms |-> 100]
P200 == [pause_duration_ms |-> 200, typing_speed |-> 7]
P300 == [pause_duration_ms |-> 300, scroll_depth_pct |-> 50,
         typing_speed_chars_per_min |-> 4, response_time_ms |-> 9]

SmallParams == { NotArray, Array(<<>>), Array(<< Null >>), Array(<< P100 >>) }

(***************************************************************************)
(* The server from its start: s1 and s2 connected, none authenticated; s3  *)
(* is a socket that has come and gone.                                     *)
(***************************************************************************)
Init ==
  /\ connected = [s \in Conns |-> s # "s3"]
  /\ user = [s \in Conns |-> NoUser]
  /\ roomId = [s \in Conns |-> NoRoom]
  /\ joined = [s \in Conns |-> {}]
  /\ behaviorBuffers = EmptyMap
  /\ admitted = {}
  /\ removed = {}
  /\ inflight = {}
  /\ cycles = <<>>
  /\ emitted = <<>>
  /\ auths = {}
  /\ chats = {}
  /\ messages = <<>>
  /\ nextSid = 0
  /\ nBatches = 0
  /\ nJoins = 0
  /\ nChats = 0
  /\ nAuths = 0

\* a client event is handled, within the bound on the events of one run
ClientEvent ==
  /\ nAuths + nJoins + nChats + nBatches < MaxEvents
  /\ \/ \E s \in Conns, data \in Tokens : Authenticate(s, data)
     \/ \E s \in Conns, targetId \in Targets : JoinRoom(s, targetId)
     \/ \E s \in Conns, text \in OneText : ChatMessage(s, text)
     \/ \E s \in Conns, params \in SmallParams : BehaviorParams(s, params)

Next ==
  \/ ClientEvent
  \/ \E s \in Conns : Disconnect(s)
  \/ \E q \in inflight, d \in OneReply : ScorerReply(q, d)
  \/ \E q \in inflight : ScorerFail(q)
  \/ \E t \in chats : ChatSaved(t)
  \/ \E t \in chats : ChatLoaded(t)
  \/ \E t \in chats : ChatFailed(t)
  \/ \E a \in auths : AuthFound(a)
  \/ \E a \in auths : AuthRejected(a)

Spec == Init /\ [][Next]_vars

(***************************************************************************)
(* The behaviour pipeline: s1 and s2 authenticated as a and b and joined   *)
(* to their room, as after authenticate(a) on s1, authenticate(b) on s2,   *)
(* join_room(b) on s1 and join_room(a) on s2.                              *)
(***************************************************************************)
RoomAB == makeRoomId(IdA, IdB)

AuthenticatedEvents ==
  << [ev |-> "authenticated", to |-> {"s1"}, user |-> UserOf(IdA)],
     [ev |-> "authenticated", to |-> {"s2"}, user |-> UserOf(IdB)] >>

JoinEvent(s, to) ==
  [ ev |-> "system_message", to |-> to, roomId |-> RoomAB,
    text |-> << IF s = "s1" THEN "Ann" ELSE "Bob", "joined chat" >>, by |-> s ]

InitJoined ==
  /\ connected = [s \in Conns |-> s # "s3"]
  /\ user = [s \in Conns |-> IF s = "s1" THEN UserOf(IdA)
                             ELSE IF s = "s2" THEN UserOf(IdB) ELSE NoUser]
  /\ roomId = [s \in Conns |-> IF s = "s3" THEN NoRoom ELSE RoomAB]
  /\ joined = [s \in Conns |-> IF s = "s3" THEN {} ELSE {RoomAB}]
  /\ behaviorBuffers = Put(EmptyMap, RoomAB, EmptyMap)
  /\ admitted = {}
  /\ removed = {}
  /\ inflight = {}
  /\ cycles = <<>>
  /\ emitted = AuthenticatedEvents
                 \o << JoinEvent("s1", {"s1"}), JoinEvent("s2", {"s1", "s2"}) >>
  /\ auths = {}
  /\ chats = {}
  /\ messages = <<>>
  /\ nextSid = 0
  /\ nBatches = 0
  /\ nJoins = 2
  /\ nChats = 0
  /\ nAuths = 2

BufParams == { Array(<<>>), Array(<< Null >>), Array(<< P100 >>) }

NextBuf ==
  \/ /\ nBatches < MaxBatches
     /\ \E s \in Conns, params \in BufParams : BehaviorParams(s, params)
  \/ \E s \in Conns : Disconnect(s)
  \/ \E q \in inflight, d \in OneReply : ScorerReply(q, d)
  \/ \E q \in inflight : ScorerFail(q)

SpecBuf == InitJoined /\ [][NextBuf]_vars

(***************************************************************************)
(* The behaviour pipeline with room switches: a socket may also join the   *)
(* room it shares with c.                                                  *)
(***************************************************************************)
RoomParams == { Array(<< Null >>), Array(<< P100 >>) }

NextRoom ==
  \/ /\ nBatches < MaxBatches
     /\ \E s \in Conns, params \in RoomParams : BehaviorParams(s, params)
  \/ /\ nJoins < MaxJoins
     /\ \E s \in Conns, targetId \in { IdC } : JoinRoom(s, targetId)
  \/ \E s \in Conns : Disconnect(s)
  \/ \E q \in inflight, d \in OneReply : ScorerReply(q, d)
  \/ \E q \in inflight : ScorerFail(q)

SpecRoom == InitJoined /\ [][NextRoom]_vars

(***************************************************************************)
(* The scorer's replies: s1 sends batches, s2 may disconnect, the scorer   *)
(* gives either reply or fails, and every request completes: axios.post    *)
(* resolves, rejects, or its 15 s timeout rejects it (line 176).           *)
(***************************************************************************)
ScorerParams == { Array(<< Null >>), Array(<< P100 >>) }

ScorerDone ==
  \E q \in inflight : (\E d \in Replies : ScorerReply(q, d)) \/ ScorerFail(q)

NextScorer ==
  \/ /\ nBatches < MaxBatches
     /\ \E params \in ScorerParams : BehaviorParams("s1", params)
  \/ Disconnect("s2")
  \/ \E q \in inflight, d \in Replies : ScorerReply(q, d)
  \/ \E q \in inflight : ScorerFail(q)

SpecScorer == InitJoined /\ [][NextScorer]_vars /\ WF_vars(ScorerDone)

(***************************************************************************)
(* Aggregation over several connections.  A room buffer holds samples of   *)
(* more than one connection only while a cycle cannot complete; the runs   *)
(* start after b's second socket s3 authenticated, joined the room and     *)
(* sent behavior_params {params: [null]}, whose cycle threw at line 149;    *)
(* the scorer answers every request.                                       *)
(***************************************************************************)
InitAgg ==
  /\ connected = [s \in Conns |-> TRUE]
  /\ user = [s \in Conns |-> IF s = "s1" THEN UserOf(IdA) ELSE UserOf(IdB)]
  /\ roomId = [s \in Conns |-> RoomAB]
  /\ joined = [s \in Conns |-> {RoomAB}]
  /\ behaviorBuffers = Put(EmptyMap, RoomAB, Put(EmptyMap, "s3", TagAll(<< Null >>, 0)))
  /\ admitted = {1}
  /\ removed = {}
  /\ inflight = {}
  /\ cycles = <<>>
  /\ emitted = AuthenticatedEvents
                 \o << JoinEvent("s1", {"s1"}), JoinEvent("s2", {"s1", "s2"}),
                       [ev |-> "authenticated", to |-> {"s3"}, user |-> UserOf(IdB)],
                       JoinEvent("s3", {"s1", "s2", "s3"}) >>
  /\ auths = {}
  /\ chats = {}
  /\ messages = <<>>
  /\ nextSid = 1
  /\ nBatches = 1
  /\ nJoins = 3
  /\ nChats = 0
  /\ nAuths = 3

AggParams == { Array(<<>>), Array(<< P100, P200 >>), Array(<< P300 >>) }

NextAgg ==
  \/ /\ nBatches < MaxAgg
     /\ \E s \in {"s1", "s2"}, params \in AggParams : BehaviorParams(s, params)
  \/ \E s \in Conns : Disconnect(s)
  \/ \E q \in inflight, d \in OneReply : ScorerReply(q, d)

SpecAgg == InitAgg /\ [][NextAgg]_vars

(***************************************************************************)
(* One connection's window: s1 sends batches of RowLen samples in a row,   *)
(* of numeric samples or with a null among the last ten; nothing else      *)
(* happens but the scorer's replies.                                       *)
(***************************************************************************)
Row == [i \in 1..RowLen |-> [pause_duration_ms |-> i]]
RowWithNull == [i \in 1..RowLen |-> IF i = RowLen - 3 THEN Null ELSE Row[i]]

NextWindow ==
  \/ /\ nBatches < MaxRow
     /\ \E params \in { Array(Row), Array(RowWithNull) } :
          BehaviorParams("s1", params)
  \/ \E q \in inflight, d \in OneReply : ScorerReply(q, d)

SpecWindow == InitJoined /\ [][NextWindow]_vars

(***************************************************************************)
(* Chat: s1 authenticated as a and not yet in a room, s2 authenticated as  *)
(* b and joined to the room of a and b; s1 joins and posts, the store      *)
(* completes or fails each step in any order, and s2 may disconnect.       *)
(***************************************************************************)
InitChat ==
  /\ connected = [s \in Conns |-> s # "s3"]
  /\ user = [s \in Conns |-> IF s = "s1" THEN UserOf(IdA)
                             ELSE IF s = "s2" THEN UserOf(IdB) ELSE NoUser]
  /\ roomId = [s \in Conns |-> IF s = "s2" THEN RoomAB ELSE NoRoom]
  /\ joined = [s \in Conns |-> IF s = "s2" THEN {RoomAB} ELSE {}]
  /\ behaviorBuffers = Put(EmptyMap, RoomAB, EmptyMap)
  /\ admitted = {}
  /\ removed = {}
  /\ inflight = {}
  /\ cycles = <<>>
  /\ emitted = AuthenticatedEvents \o << JoinEvent("s2", {"s2"}) >>
  /\ auths = {}
  /\ chats = {}
  /\ messages = <<>>
  /\ nextSid = 0
  /\ nBatches = 0
  /\ nJoins = 1
  /\ nChats = 0
  /\ nAuths = 2

NextChat ==
  \/ /\ nJoins < MaxJoins
     /\ \E targetId \in { IdB, IdC } : JoinRoom("s1", targetId)
  \/ /\ nChats < MaxChats
     /\ \E text \in Texts : ChatMessage("s1", text)
  \/ \E t \in chats : ChatSaved(t)
  \/ \E t \in chats : ChatLoaded(t)
  \/ \E t \in chats : ChatFailed(t)
  \/ Disconnect("s2")

SpecChat == InitChat /\ [][NextChat]_vars

(***************************************************************************)
(* Leaving while a request is pending: both sockets send numeric samples   *)
(* and disconnect in any order; every request completes (line 176).        *)
(***************************************************************************)
LeaveParams == { Array(<< P100 >>) }

LeaveDone ==
  \E q \in inflight : (\E d \in OneReply : ScorerReply(q, d)) \/ ScorerFail(q)

NextLeave ==
  \/ /\ nBatches < MaxBatches
     /\ \E s \in Conns, params \in LeaveParams : BehaviorParams(s, params)
  \/ \E s \in Conns : Disconnect(s)
  \/ \E q \in inflight, d \in OneReply : ScorerReply(q, d)
  \/ \E q \in inflight : ScorerFail(q)

SpecLeave == InitJoined /\ [][NextLeave]_vars /\ WF_vars(LeaveDone)

(***************************************************************************)
(* Batches of several lengths: s1 sends batches shorter than, as long as   *)
(* and longer than ten samples, some with a null; the scorer replies.      *)
(***************************************************************************)
TruncLens == { 0, 1, BatchTail, BatchTail + 1, RowLen }

TruncParams ==
  { Array(SubSeq(Row, 1, k)) : k \in TruncLens } \cup { Array(RowWithNull) }

NextTrunc ==
  \/ /\ nBatches < MaxBatches
     /\ \E params \in TruncParams : BehaviorParams("s1", params)
  \/ \E q \in inflight, d \in OneReply : ScorerReply(q, d)

SpecTrunc == InitJoined /\ [][NextTrunc]_vars

(***************************************************************************)
(* Room ids: s1 and s2 are authenticated under any two identities made of  *)
(* "_", "a" and "b", and each joins with the other's identity as target.   *)
(***************************************************************************)
IdUnits == { 95, 97, 98 }
IdSet == UNION { [1..n -> IdUnits] : n \in 1..MaxIdLen }

PairUser(id) == [id |-> id, name |-> "u", email |-> "u@x"]

InitPair ==
  /\ connected = [s \in Conns |-> s # "s3"]
  /\ \E x, y \in IdSet :
       /\ user = [s \in Conns |-> IF s = "s1" THEN PairUser(x)
                                  ELSE IF s = "s2" THEN PairUser(y) ELSE NoUser]
       /\ emitted = << [ev |-> "authenticated", to |-> {"s1"}, user |-> PairUser(x)],
                       [ev |-> "authenticated", to |-> {"s2"}, user |-> PairUser(y)] >>
  /\ roomId = [s \in Conns |-> NoRoom]
  /\ joined = [s \in Conns |-> {}]
  /\ behaviorBuffers = EmptyMap
  /\ admitted = {}
  /\ removed = {}
  /\ inflight = {}
  /\ cycles = <<>>
  /\ auths = {}
  /\ chats = {}
  /\ messages = <<>>
  /\ nextSid = 0
  /\ nBatches = 0
  /\ nJoins = 0
  /\ nChats = 0
  /\ nAuths = 2

NextPair ==
  /\ nJoins < MaxJoins
  /\ \/ JoinRoom("s1", user["s2"].id)
     \/ JoinRoom("s2", user["s1"].id)

SpecPair == InitPair /\ [][NextPair]_vars

(***************************************************************************)
(* A socket from its connection on: s1 is connected and not authenticated, *)
(* s2 is authenticated as b and joined to the room of a and b; s1 sends    *)
(* any events, in any order, and every continuation may run.               *)
(***************************************************************************)
InitGate ==
  /\ connected = [s \in Conns |-> s # "s3"]
  /\ user = [s \in Conns |-> IF s = "s2" THEN UserOf(IdB) ELSE NoUser]
  /\ roomId = [s \in Conns |-> IF s = "s2" THEN RoomAB ELSE NoRoom]
  /\ joined = [s \in Conns |-> IF s = "s2" THEN {RoomAB} ELSE {}]
  /\ behaviorBuffers = Put(EmptyMap, RoomAB, EmptyMap)
  /\ admitted = {}
  /\ removed = {}
  /\ inflight = {}
  /\ cycles = <<>>
  /\ emitted = << AuthenticatedEvents[2], JoinEvent("s2", {"s2"}) >>
  /\ auths = {}
  /\ chats = {}
  /\ messages = <<>>
  /\ nextSid = 0
  /\ nBatches = 0
  /\ nJoins = 1
  /\ nChats = 0
  /\ nAuths = 1

\* an event of s1 is handled, within the bound on the events of one run
GateEvent ==
  /\ (nAuths - 1) + (nJoins - 1) + nChats + nBatches < MaxEvents
  /\ \/ \E data \in Tokens : Authenticate("s1", data)
     \/ \E targetId \in { IdB } : JoinRoom("s1", targetId)
     \/ \E text \in OneText : ChatMessage("s1", text)
     \/ \E params \in SmallParams : BehaviorParams("s1", params)

NextGate ==
  \/ GateEvent
  \/ \E q \in inflight, d \in OneReply : ScorerReply(q, d)
  \/ \E q \in inflight : ScorerFail(q)
  \/ \E t \in chats : ChatSaved(t)
  \/ \E t \in chats : ChatLoaded(t)
  \/ \E t \in chats : ChatFailed(t)
  \/ \E a \in auths : AuthFound(a)
  \/ \E a \in auths : AuthRejected(a)

SpecGate == InitGate /\ [][NextGate]_vars

(***************************************************************************)
(* Room switches with numeric and empty batches: a socket may join the     *)
(* room it shares with c, send, and disconnect.                            *)
(***************************************************************************)
StaleParams == { Array(<<>>), Array(<< P100 >>) }

NextStale ==
  \/ /\ nBatches < MaxBatches
     /\ \E s \in Conns, params \in StaleParams : BehaviorParams(s, params)
  \/ /\ nJoins < MaxJoins
     /\ \E s \in Conns, targetId \in { IdC } : JoinRoom(s, targetId)
  \/ \E s \in Conns : Disconnect(s)
  \/ \E q \in inflight, d \in OneReply : ScorerReply(q, d)
  \/ \E q \in inflight : ScorerFail(q)

SpecStale == InitJoined /\ [][NextStale]_vars

(***************************************************************************)
(* Identities: s1, connected and not authenticated, authenticates with     *)
(* valid tokens of a and of b and joins with targets b and c, in any       *)
(* order; the lookups complete in any order.                               *)
(***************************************************************************)
ValidTokens == { data \in Tokens : data.hasToken /\ data.valid /\ data.id \in {IdA, IdB} }

IdentityEvent ==
  /\ (nAuths - 1) + (nJoins - 1) < MaxEvents
  /\ \/ \E data \in ValidTokens : Authenticate("s1", data)
     \/ \E targetId \in { IdB, IdC } : JoinRoom("s1", targetId)

NextIdentity ==
  \/ IdentityEvent
  \/ \E a \in auths : AuthFound(a)
  \/ \E a \in auths : AuthRejected(a)

SpecIdentity == InitGate /\ [][NextIdentity]_vars

(***************************************************************************)
(* Properties of the behaviour pipeline.                                   *)
(***************************************************************************)
\* the samples cycle q counted in its features, and those of all cycles
CycleSids(q) == RoomSids(cycles[q].buf)
AllCycleSids == UNION { CycleSids(q) : q \in 1..Len(cycles) }

\* the ml_analysis and ml_error events emitted for cycle q
MlEvents(q) ==
  { i \in 1..Len(emitted) :
      emitted[i].ev \in {"ml_analysis", "ml_error"} /\ emitted[i].cycle = q }

\* the number of samples in room r's buffer
RoomCount(bufs, r) ==
  IF r \in DOMAIN bufs THEN Cardinality(RoomSids(bufs[r])) ELSE 0

\* s handles behavior_params with the array params as a member of a room
Triggers(s, params) ==
  /\ BehaviorParams(s, params)
  /\ user[s] # NoUser /\ roomId[s] # NoRoom /\ params.isArray

\* C1: drain and clear are one step with respect to append: no sample is
\* counted in the features of two cycles, a sample counted by a cycle is in
\* no buffer any more, and every sample ever admitted is still buffered, or
\* was counted by a cycle, or was evicted or deleted by its socket's
\* disconnect: none is erased by a clear without being counted.
C1_DrainClearAtomic ==
  /\ \A q1, q2 \in 1..Len(cycles) :
       q1 # q2 => CycleSids(q1) \cap CycleSids(q2) = {}
  /\ BufSids(behaviorBuffers) \cap AllCycleSids = {}
  /\ removed \cap AllCycleSids = {}
  /\ admitted = BufSids(behaviorBuffers) \cup AllCycleSids \cup removed

\* two cycles in flight at once, a socket gone, and a sample admitted since
\* waiting in the buffer
C1_Witness ==
  /\ Cardinality(inflight) >= 2
  /\ \E s \in {"s1", "s2"} : ~connected[s]
  /\ BufSids(behaviorBuffers) # {}

\* C4: when the request of a cycle failed, exactly one ml_error and no
\* ml_analysis was emitted for the cycle, to its room; the request is not
\* pending again and no request exists that no batch triggered (no retry);
\* and when the failure is handled the room's buffer holds no sample.
C4_ScorerFailure ==
  /\ [](\A i \in 1..Len(emitted) :
          emitted[i].ev = "ml_error" =>
            /\ MlEvents(emitted[i].cycle) = {i}
            /\ emitted[i].roomId = cycles[emitted[i].cycle].roomId
            /\ emitted[i].cycle \notin inflight
            /\ Len(cycles) <= nBatches)
  /\ [][ \A q \in inflight :
           ScorerFail(q) => RoomCount(behaviorBuffers', cycles[q].roomId) = 0 ]_vars

\* C6: a behavior_params event that admits nothing into a room whose buffer
\* holds no sample posts nothing to the scorer and emits nothing; and no
\* cycle ever posts features of zero samples.
C6_ZeroSampleNoop ==
  /\ [](\A q \in 1..Len(cycles) :
          CycleSids(q) # {} /\ cycles[q].features.sample_count >= 1)
  /\ [][ \A s \in Conns, params \in BufParams :
           ( /\ Triggers(s, params)
             /\ Len(params.items) = 0
             /\ RoomCount(behaviorBuffers, roomId[s]) = 0 )
           => ( /\ inflight' = inflight
                /\ cycles' = cycles
                /\ emitted' = emitted ) ]_vars

\* an empty batch was handled: the socket's array exists and is empty
C6_Witness ==
  /\ nBatches = 1 /\ nextSid = 0
  /\ "s1" \in DOMAIN behaviorBuffers[RoomAB]
  /\ behaviorBuffers[RoomAB]["s1"] = <<>>

\* C7: after the aggregation that a behavior_params event triggers has read
\* the room's buffer, the room's buffer holds no sample, whatever it held.
C7_DrainEmptiesBuffer ==
  [][ \A s \in Conns, params \in BufParams :
        Triggers(s, params) => RoomCount(behaviorBuffers', roomId[s]) = 0 ]_vars

\* the window of s in the buffer of room r
Window(r, s) ==
  IF r \in DOMAIN behaviorBuffers /\ s \in DOMAIN behaviorBuffers[r]
  THEN behaviorBuffers[r][s] ELSE <<>>

\* the samples admitted since the last drain
Undrained == { x \in admitted : \A y \in AllCycleSids : x > y }

Min(a, b) == IF a <= b THEN a ELSE b

\* C2 as stated: after five batches of 15 samples in a row from one joined
\* connection, its window holds exactly 30 samples, the 30 most recently
\* admitted ones.
C2_WindowHoldsThirty ==
  nBatches = 5 =>
    /\ Len(Window(RoomAB, "s1")) = 30
    /\ \A x \in admitted \ Sids(Window(RoomAB, "s1")) :
         \A y \in Sids(Window(RoomAB, "s1")) : x < y

\* C2 amended: after any number of batches in a row the window holds, in
\* the order admitted, the most recent min(30, u) of the u samples admitted
\* since the room's last drain, a batch admitting its last ten; once every
\* batch has been drained by its own cycle the window is empty, and the
\* window is full exactly when 30 or more were admitted since the last drain.
C2_WindowBounded ==
  LET w == Window(RoomAB, "s1")
  IN  /\ Len(w) = Min(WindowCap, Cardinality(Undrained))
      /\ Sids(w) \subseteq Undrained
      /\ Cardinality(Sids(w)) = Len(w)
      /\ \A i, j \in 1..Len(w) : i < j => w[i].sid < w[j].sid
      /\ \A x \in Undrained \ Sids(w) : \A y \in Sids(w) : x < y
      /\ Cardinality(admitted) = BatchTail * nBatches
      /\ Len(cycles) = nBatches => w = <<>>
      /\ Len(w) = WindowCap <=> Cardinality(Undrained) >= WindowCap

\* five batches in a row, the first drained by its cycle, the window full
\* of the last three and the samples of the second evicted
C2_Witness ==
  /\ nBatches = 5
  /\ Len(Window(RoomAB, "s1")) = WindowCap
  /\ removed # {}
  /\ Len(cycles) = 1

\* five numeric batches in a row, each drained by its own cycle
C2_WitnessDrained ==
  /\ nBatches = 5
  /\ Len(cycles) = 5
  /\ Window(RoomAB, "s1") = <<>>

\* C3: two posts of one connection to one room, both persisted, are stored
\* in the order sent, and their chat_message broadcasts reach every common
\* receiver in the order sent (post ids grow with the order of sending).
C3_ChatOrder ==
  /\ \A i, j \in 1..Len(messages) :
       ( /\ messages[i].from = messages[j].from
         /\ messages[i].roomId = messages[j].roomId
         /\ messages[i].id < messages[j].id ) => i < j
  /\ \A i, j \in 1..Len(emitted) :
       ( /\ emitted[i].ev = "chat_message" /\ emitted[j].ev = "chat_message"
         /\ emitted[i].by = emitted[j].by
         /\ emitted[i].id < emitted[j].id
         /\ emitted[i].to \cap emitted[j].to # {} ) => i < j

\* C9: every chat_message carries the stored text and the sender's identity
\* as from.id; when it goes to the room it was posted in, a system_message
\* of the sender's join of that room was emitted before it, and every
\* connection that received that system_message and is still connected
\* receives the chat_message.
C9_JoinThenMessage ==
  \A j \in 1..Len(emitted) :
    emitted[j].ev = "chat_message" =>
      /\ emitted[j].text = Stored(emitted[j].id).text
      /\ emitted[j].from.id = Stored(emitted[j].id).from
      /\ emitted[j].from.id = user[emitted[j].by].id
      /\ emitted[j].roomId = Stored(emitted[j].id).roomId =>
           \E i \in 1..(j - 1) :
             /\ emitted[i].ev = "system_message"
             /\ emitted[i].by = emitted[j].by
             /\ emitted[i].roomId = emitted[j].roomId
             /\ \A b \in emitted[i].to :
                  b \in emitted[j].to \/ ~connected[b]

\* a joins the room b is in and posts "hi": b got the announcement, then
\* the message
C9_Witness ==
  \E i, j \in 1..Len(emitted) :
    /\ i < j
    /\ emitted[i].ev = "system_message" /\ emitted[i].by = "s1"
    /\ emitted[i].roomId = RoomAB /\ "s2" \in emitted[i].to
    /\ emitted[j].ev = "chat_message" /\ emitted[j].by = "s1"
    /\ emitted[j].text = "hi" /\ emitted[j].from.id = IdA
    /\ "s2" \in emitted[j].to /\ connected["s2"]

\* the samples of the cycle q, each one an object of its own
CycleSamples(q) ==
  UNION { { cycles[q].buf[s][i] : i \in 1..Len(cycles[q].buf[s]) } :
          s \in DOMAIN cycles[q].buf }

\* the value a sample carries for a quantity named by any of the names F
Carried(F, p) ==
  IF F \cap DOMAIN p = {} THEN 0 ELSE p[CHOOSE f \in F \cap DOMAIN p : TRUE]

RECURSIVE TotalOf(_, _)
TotalOf(F, S) ==
  IF S = {} THEN 0
  ELSE LET p == CHOOSE x \in S : TRUE
       IN  Carried(F, p) + TotalOf(F, S \ {p})

\* r is an integer nearest to total / n
Nearest(r, total, n) ==
  /\ r \in Int
  /\ 2 * (r * n - total) <= n
  /\ 2 * (total - r * n) <= n

PausesOf(w) == [i \in 1..Len(w) |-> Carried({"pause_duration_ms"}, w[i])]

\* C5: the features of every scorer request have sample_count equal to the
\* number of samples over all connections, and each avg field an integer
\* nearest to the mean of that quantity over those samples, a missing field
\* counting 0; the buffer {s1: pauses 100, 200; s2: pause 300} gives
\* avg_pause_duration_ms 200 and sample_count 3.
C5_AggregateCorrect ==
  \A q \in 1..Len(cycles) :
    LET S == CycleSamples(q)
        n == Cardinality(S)
        f == cycles[q].features
    IN  /\ n >= 1
        /\ f.sample_count = n
        /\ Nearest(f.avg_pause_duration_ms, TotalOf({"pause_duration_ms"}, S), n)
        /\ Nearest(f.avg_scroll_depth_pct, TotalOf({"scroll_depth_pct"}, S), n)
        /\ Nearest(f.avg_typing_speed_min,
                   TotalOf({"typing_speed_min", "typing_speed",
                            "typing_speed_chars_per_min"}, S), n)
        /\ Nearest(f.avg_response_time,
                   TotalOf({"response_time", "response_time_ms"}, S), n)
        /\ ( /\ DOMAIN cycles[q].buf = {"s1", "s2"}
             /\ PausesOf(cycles[q].buf["s1"]) = << 100, 200 >>
             /\ PausesOf(cycles[q].buf["s2"]) = << 300 >> )
           => (f.avg_pause_duration_ms = 200 /\ f.sample_count = 3)

\* the cycle of the example: two connections, three samples
C5_Witness ==
  \E q \in 1..Len(cycles) :
    /\ DOMAIN cycles[q].buf = {"s1", "s2"}
    /\ PausesOf(cycles[q].buf["s1"]) = << 100, 200 >>
    /\ PausesOf(cycles[q].buf["s2"]) = << 300 >>
    /\ cycles[q].features.sample_count = 3
    /\ cycles[q].features.avg_scroll_depth_pct = 17
    /\ q \notin inflight

\* C8: once a socket that joined room r has disconnected, no cycle counts
\* samples of a socket that is gone, and a batch of well-formed samples from
\* a connected member of r posts a scorer request (when no connected socket
\* has a malformed sample waiting in r).
LeftRoom(s, r) ==
  /\ ~connected[s]
  /\ \E i \in 1..Len(emitted) :
       /\ emitted[i].ev = "system_message"
       /\ emitted[i].by = s /\ emitted[i].roomId = r

LiveNull(r) ==
  \E s \in DOMAIN behaviorBuffers[r] : connected[s] /\ HasNull(behaviorBuffers[r][s])

C8_DisconnectCleanup ==
  [][ /\ Len(cycles') > Len(cycles) =>
           \A s \in DOMAIN cycles'[Len(cycles')].buf :
             cycles'[Len(cycles')].buf[s] # <<>> => connected[s]
      /\ \A s \in Conns, params \in RoomParams :
           ( /\ Triggers(s, params)
             /\ \E g \in Conns : LeftRoom(g, roomId[s])
             /\ ~HasNull(params.items) /\ Len(params.items) >= 1
             /\ ~LiveNull(roomId[s]) )
           => ( /\ Len(cycles') = Len(cycles) + 1
                /\ inflight' = inflight \cup {Len(cycles')} ) ]_vars

\* C10: a pending request has no broadcast yet; a request that is no longer
\* pending has exactly one, to its room: ml_analysis with the features the
\* cycle computed at its drain, or ml_error; the reply step emits
\* ml_analysis with the scorer's reply as it came; and every pending request
\* ends with its one broadcast.
C10_OneBroadcastPerRequest ==
  /\ [](\A q \in 1..Len(cycles) :
          IF q \in inflight THEN MlEvents(q) = {}
          ELSE /\ Cardinality(MlEvents(q)) = 1
               /\ \A i \in MlEvents(q) :
                    /\ emitted[i].roomId = cycles[q].roomId
                    /\ emitted[i].ev = "ml_analysis" =>
                         emitted[i].features = cycles[q].features)
  /\ [][ \A q \in inflight, d \in Replies :
           ScorerReply(q, d) =>
             /\ Len(emitted') = Len(emitted) + 1
             /\ emitted'[Len(emitted')].ev = "ml_analysis"
             /\ emitted'[Len(emitted')].mlData = d
             /\ emitted'[Len(emitted')].features = cycles[q].features ]_vars
  /\ \A q \in 1..MaxBatches :
       (q \in inflight) ~> (q \notin inflight /\ Cardinality(MlEvents(q)) = 1)

\* one cycle answered and broadcast, another failed and broadcast
C10_Witness ==
  \E i, j \in 1..Len(emitted) :
    /\ emitted[i].ev = "ml_analysis" /\ emitted[i].mlData = "bored"
    /\ emitted[j].ev = "ml_error"
    /\ emitted[i].cycle # emitted[j].cycle
    /\ inflight = {}

\* C11: the behavior_params handler ends with its scorer request pending and
\* nothing emitted, whatever requests are already pending; while a request
\* is pending every open socket can have a behavior_params handled, and one
\* with numeric samples on a room without malformed samples starts a further
\* cycle of its own.
C11_NonBlockingDispatch ==
  /\ []( (inflight # {} /\ nBatches < MaxBatches) =>
           \A s \in Conns : connected[s] =>
             ENABLED BehaviorParams(s, Array(<< P100 >>)) )
  /\ [][ \A s \in Conns, params \in BufParams :
           ( /\ Triggers(s, params)
             /\ Len(params.items) >= 1 /\ ~HasNull(params.items)
             /\ ~HasNull(AllParams(behaviorBuffers[roomId[s]])) )
           => ( /\ Len(cycles') = Len(cycles) + 1
                /\ inflight' = inflight \cup {Len(cycles')}
                /\ cycles'[Len(cycles')].roomId = roomId[s]
                /\ emitted' = emitted ) ]_vars

\* two requests of one room pending at once, both started by s1
C11_Witness ==
  \E q1, q2 \in inflight :
    /\ q1 # q2
    /\ cycles[q1].roomId = cycles[q2].roomId
    /\ DOMAIN cycles[q1].buf = {"s1"} /\ DOMAIN cycles[q2].buf = {"s1"}

\* the open sockets in room r
Remaining(r) == { b \in Conns : connected[b] /\ r \in joined[b] }

\* C12: a disconnect leaves every pending request pending and emits nothing;
\* the completion of a request emits its ml_analysis or ml_error to the
\* sockets then open in the room; and a request pending after a socket has
\* gone ends with its event emitted to every socket still in the room.
C12_DisconnectKeepsCycle ==
  /\ [][ \A s \in Conns :
           Disconnect(s) =>
             (inflight' = inflight /\ cycles' = cycles /\ emitted' = emitted) ]_vars
  /\ [][ \A q \in inflight :
           ((\E d \in OneReply : ScorerReply(q, d)) \/ ScorerFail(q)) =>
             /\ Len(emitted') = Len(emitted) + 1
             /\ emitted'[Len(emitted')].ev \in {"ml_analysis", "ml_error"}
             /\ emitted'[Len(emitted')].cycle = q
             /\ emitted'[Len(emitted')].to = Remaining(cycles[q].roomId) ]_vars
  /\ \A q \in 1..MaxBatches :
       (q \in inflight /\ \E s \in {"s1", "s2"} : ~connected[s]) ~>
         ( /\ q \notin inflight
           /\ \E i \in MlEvents(q) : Remaining(cycles[q].roomId) \subseteq emitted[i].to )

\* a cycle started by s2 has its event delivered to s1 alone: s2 left while
\* the request was pending
C12_Witness ==
  \E i \in 1..Len(emitted) :
    /\ emitted[i].ev \in {"ml_analysis", "ml_error"}
    /\ "s2" \in DOMAIN cycles[emitted[i].cycle].buf
    /\ emitted[i].to = {"s1"}
    /\ ~connected["s2"] /\ connected["s1"]

\* the array of s that a behavior_params step of s leaves: in the cycle it
\* started, or else in the buffer
ArrayAfter(s) ==
  IF Len(cycles') > Len(cycles)
  THEN cycles'[Len(cycles')].buf[s]
  ELSE behaviorBuffers'[roomId[s]][s]

\* C13: a batch of k elements from a joined connection admits exactly its
\* last min(k, 10) elements, which end the connection's array in their
\* order; its first k - 10 elements are in no buffer and no cycle, then or
\* later (buffers and cycles hold admitted samples only).
C13_BatchTruncation ==
  /\ [](BufSids(behaviorBuffers) \cup AllCycleSids \subseteq admitted)
  /\ [][ \A s \in Conns, params \in TruncParams :
           Triggers(s, params) =>
             LET k == Len(params.items)
                 m == Min(k, 10)
                 w == ArrayAfter(s)
             IN  /\ admitted' \ admitted = { nextSid + i : i \in (k - m + 1)..k }
                 /\ Len(w) >= m
                 /\ \A j \in 1..m :
                      w[Len(w) - m + j]
                        = Tag(params.items[k - m + j], nextSid + k - m + j)
                 /\ \A i \in 1..(k - m) :
                      (nextSid + i) \notin BufSids(behaviorBuffers') \cup AllCycleSids' ]_vars

\* a first batch longer than ten was handled: its first element was never
\* admitted, its last ten were counted
C13_Witness ==
  /\ nextSid > BatchTail + 1
  /\ 1 \notin admitted
  /\ Len(cycles) >= 1
  /\ cycles[1].features.sample_count = 10
  /\ Cardinality(CycleSids(1)) = 10

\* C14: the room id of two identities is the same in either order, so that
\* once a socket of A has joined with target B and a socket of B with target
\* A, both are registered under one room, and the announcement of the later
\* join reaches both.
C14_RoomIdCommutes ==
  /\ makeRoomId(user["s1"].id, user["s2"].id)
       = makeRoomId(user["s2"].id, user["s1"].id)
  /\ (roomId["s1"] # NoRoom /\ roomId["s2"] # NoRoom) =>
       /\ roomId["s1"] = roomId["s2"]
       /\ roomId["s1"] \in joined["s1"] \cap joined["s2"]
       /\ \E i \in 1..Len(emitted) :
            /\ emitted[i].ev = "system_message"
            /\ emitted[i].roomId = roomId["s1"]
            /\ emitted[i].to = {"s1", "s2"}

\* both have joined, under identities that differ and that s1's call gave
\* in the order opposite to the sorted one
C14_Witness ==
  /\ roomId["s1"] # NoRoom
  /\ roomId["s1"] = roomId["s2"]
  /\ StrLess(user["s2"].id, user["s1"].id)
  /\ roomId["s1"] = user["s2"].id \o Underscore \o user["s1"].id

\* a handler step that only emits one error event to s alone
Rejected(s) ==
  /\ emitted' = Append(emitted, emitted'[Len(emitted')])
  /\ emitted'[Len(emitted')].ev = "error"
  /\ emitted'[Len(emitted')].to = {s}
  /\ connected'[s]
  /\ UNCHANGED << connected, user, roomId, joined, behaviorBuffers, messages,
                  chats, cycles, inflight, auths >>

\* C15: a join_room of a socket without identity, and a chat_message or a
\* behavior_params of a socket without identity or without room, emit one
\* error to that socket alone and change neither the sockets, their rooms,
\* the buffers, the store, nor the cycles and pending requests.
C15_RejectedToCaller ==
  [][ \A s \in Conns :
        /\ \A targetId \in Targets :
             (JoinRoom(s, targetId) /\ user[s] = NoUser) => Rejected(s)
        /\ \A text \in OneText :
             (ChatMessage(s, text) /\ (user[s] = NoUser \/ roomId[s] = NoRoom))
               => Rejected(s)
        /\ \A params \in SmallParams :
             (BehaviorParams(s, params) /\ (user[s] = NoUser \/ roomId[s] = NoRoom))
               => Rejected(s) ]_vars

\* s1 was refused a join before authenticating and, once authenticated, a
\* post before joining; it is still open, in no room, with nothing stored
C15_Witness ==
  /\ \E i, j \in 1..Len(emitted) :
       /\ i < j
       /\ emitted[i] = [ev |-> "error", to |-> {"s1"}, message |-> "Unauthorized"]
       /\ emitted[j] = [ev |-> "error", to |-> {"s1"},
                        message |-> "Unauthorized or no room joined"]
  /\ user["s1"] # NoUser /\ roomId["s1"] = NoRoom
  /\ connected["s1"] /\ joined["s1"] = {}
  /\ messages = <<>> /\ chats = {} /\ cycles = <<>>

\* a handler step that emits unauthorized to s, closes s and gives no socket
\* an identity
Refused(s) ==
  /\ emitted' = Append(emitted, emitted'[Len(emitted')])
  /\ emitted'[Len(emitted')].ev = "unauthorized"
  /\ emitted'[Len(emitted')].to = (IF connected[s] THEN {s} ELSE {})
  /\ ~connected'[s]
  /\ joined'[s] = {}
  /\ user' = user

\* C16: an authenticate without token or with a token that does not verify,
\* and one whose lookup finds no user or fails, emit unauthorized to the
\* socket and disconnect it without changing any identity; an identity is
\* only ever one of the directory, attached by a lookup that found it.
C16_FailedAuthDisconnects ==
  /\ [](\A s \in Conns : user[s] = NoUser \/ user[s] \in Directory)
  /\ [][ /\ \A s \in Conns, data \in Tokens :
              (Authenticate(s, data) /\ (~data.hasToken \/ ~data.valid))
                => Refused(s)
         /\ \A a \in auths : AuthRejected(a) => Refused(a.sock)
         /\ \A a \in auths :
              (\A u \in Directory : u.id # a.id) => ~AuthFound(a) ]_vars

\* s1 was refused: it got unauthorized, is closed and has no identity
C16_Witness ==
  /\ ~connected["s1"]
  /\ user["s1"] = NoUser
  /\ emitted[Len(emitted)] = [ev |-> "unauthorized", to |-> {"s1"}]
  /\ auths = {}
  /\ nAuths = 2

\* the chat_message events of the post id
ChatEvents(id) ==
  { i \in 1..Len(emitted) : emitted[i].ev = "chat_message" /\ emitted[i].id = id }

ErrorEvents == { i \in 1..Len(emitted) : emitted[i].ev = "error" }

\* C17: a failure of the store on a post emits one error to the sender alone,
\* stores nothing more and ends the post; every post has exactly one
\* outcome, a chat_message or an error, never both and never twice.
C17_PersistenceFailure ==
  /\ [][ \A t \in chats :
           ChatFailed(t) =>
             /\ emitted' = Append(emitted,
                  [ ev |-> "error",
                    to |-> (IF connected[t.sock] THEN {t.sock} ELSE {}),
                    message |-> "Failed to save message" ])
             /\ chats' = chats \ {t}
             /\ messages' = messages ]_vars
  /\ [](/\ \A id \in 1..nChats : Cardinality(ChatEvents(id)) <= 1
        /\ \A t \in chats : ChatEvents(t.id) = {}
        /\ Cardinality(UNION { ChatEvents(id) : id \in 1..nChats })
             + Cardinality(ErrorEvents) + Cardinality(chats) = nChats)

\* the reload of a stored post failed: the sender got the error, the room
\* with s2 in it got no chat_message for it
C17_Witness ==
  /\ \E i \in 1..Len(emitted) :
       emitted[i] = [ev |-> "error", to |-> {"s1"},
                     message |-> "Failed to save message"]
  /\ \E k \in 1..Len(messages) :
       /\ messages[k].roomId = RoomAB
       /\ ChatEvents(messages[k].id) = {}
       /\ \A t \in chats : t.id # messages[k].id
  /\ RoomAB \in joined["s1"] \cap joined["s2"]
  /\ connected["s2"]

\* C18: a behavior_params of an authenticated, joined socket whose params is
\* not an array emits nothing, changes no buffer and starts no cycle and no
\* request.
C18_MalformedIgnored ==
  [][ \A s \in Conns, params \in SmallParams :
        ( /\ BehaviorParams(s, params)
          /\ user[s] # NoUser /\ roomId[s] # NoRoom
          /\ ~params.isArray )
        => UNCHANGED << emitted, behaviorBuffers, admitted, removed, cycles,
                        inflight, sockVars, chatVars >> ]_vars

\* s1, authenticated and joined, had one behavior_params handled that left
\* no array of its own, no cycle and no error: its params was not an array
C18_Witness ==
  /\ nBatches = 1
  /\ user["s1"] # NoUser /\ roomId["s1"] = RoomAB
  /\ behaviorBuffers[RoomAB] = EmptyMap
  /\ cycles = <<>>
  /\ ErrorEvents = {}

\* C19: no room's buffer has an entry keyed by a socket that has
\* disconnected.
C19_NoEntryAfterDisconnect ==
  \A s \in Conns :
    ~connected[s] =>
      \A r \in DOMAIN behaviorBuffers : s \notin DOMAIN behaviorBuffers[r]

\* C20: a socket is in at most one room, the one it joined last, and an
\* event emitted to a room reaches only sockets whose room it is.
C20_OneRoomAtATime ==
  /\ [](\A s \in Conns : joined[s] \subseteq {roomId[s]})
  /\ [][ Len(emitted') > Len(emitted) =>
           ( "roomId" \in DOMAIN emitted'[Len(emitted')] =>
               \A s \in emitted'[Len(emitted')].to :
                 roomId'[s] = emitted'[Len(emitted')].roomId ) ]_vars

\* C21: the identity of a socket, once set, is never changed by a later
\* step, and the room id of a socket in a room is the room id of its
\* identity and some target.
C21_IdentityImmutable ==
  /\ [][ \A s \in Conns : user[s] # NoUser => user'[s] = user[s] ]_vars
  /\ [](\A s \in Conns :
          roomId[s] # NoRoom =>
            \E targetId \in Targets : roomId[s] = makeRoomId(user[s].id, targetId))

\* C22: every chat_message event goes to the room stored with its message,
\* and to the sockets of that room.
C22_BroadcastToStoredRoom ==
  \A j \in 1..Len(emitted) :
    emitted[j].ev = "chat_message" =>
      emitted[j].roomId = Stored(emitted[j].id).roomId

\* C23: between two handlers every room buffer holds zero samples, every
\* scorer request counts between 1 and 10 samples, and the samples a request
\* counts are those admitted by the behavior_params step that started it
\* (none admitted by an earlier batch or by another socket).
C23_OneBatchPerRequest ==
  /\ [](\A r \in DOMAIN behaviorBuffers : RoomCount(behaviorBuffers, r) = 0)
  /\ [](\A q \in 1..Len(cycles) :
          /\ 1 <= cycles[q].features.sample_count
          /\ cycles[q].features.sample_count <= BatchTail)
  /\ [][ \A s \in Conns, params \in BufParams :
           (Triggers(s, params) /\ Len(cycles') > Len(cycles)) =>
             /\ \A x \in RoomSids(cycles'[Len(cycles')].buf) : x > nextSid
             /\ \A t \in DOMAIN cycles'[Len(cycles')].buf :
                  t # s => Len(cycles'[Len(cycles')].buf[t]) = 0 ]_vars

=============================================================================
